---- MODULE Spec2Model ----
(***************************************************************************)
(* Decision-theory lesson: the decision-rule arithmetic of the widgets     *)
(* (Maximax, Maximin, Minimax Regret, Expected Utility), the state of the  *)
(* probability steppers, the step-by-step animated demos with their timers *)
(* and the application mode (AppModeContext).                              *)
(*                                                                         *)
(* Conventions.                                                            *)
(*  - A JavaScript array is a TLA+ sequence (1-based); an index the code    *)
(*    computes (indexOf) keeps its JavaScript value (0-based, -1 = absent). *)
(*  - A payoff is an integer, as every payoff literal of the source is.     *)
(*  - A probability and an expected utility are numbers the code obtains by *)
(*    dividing and multiplying integers; they are kept as exact fractions   *)
(*    <<numerator, denominator>> in lowest terms with a positive            *)
(*    denominator, so that equal numbers are equal values.  IEEE rounding   *)
(*    of the double arithmetic is not modelled.                             *)
(*  - A React component is observed one at a time: `component` names it.    *)
(*    An event handler is one action: it updates the state and clears      *)
(*    `rendered`; the render React runs next is the action Render*, the    *)
(*    only step enabled until it has run.  The values a component derives   *)
(*    are locals of its body: a handler drops those of the last render,    *)
(*    the next render computes all of them anew, and the properties of     *)
(*    derived values are stated of the rendered states.                    *)
(***************************************************************************)
EXTENDS Integers, Sequences, FiniteSets, Bags, TLC

VARIABLES
    component,            \* the component instance under observation
    rendered,             \* TRUE once the component body has run on the state
    thrown,               \* the message of the Error a render threw, "none" if none
    \* ScenarioExplorer (one payoff table and everything derived from it)
    payoffs,              \* current.payoffs
    numStates,            \* current.states.length
    maxPayoffs, minPayoffs, bestInColumn, regretMatrix, maxRegrets,
    maximaxChoice, maximinChoice, minimaxRegretChoice,
    \* ExpectedUtilitySection / ExpectedUtilityCalculator
    highDemand, mediumDemand, lowDemand,
    total, probabilities, expectedUtilities, bestIndex,
    \* AppModeContext
    location,             \* window.location: its query string and its hash
    envMode,              \* import.meta.env.VITE_APP_MODE
    defaultMode,          \* the defaultMode prop handed to AppModeProvider
    provided,             \* TRUE when an AppModeProvider is above the consumer
    context,              \* the value of AppModeContext at the consumer
    returned,             \* what useAppMode returned to the consumer
    \* MaximaxDemo, MaximinDemo, MinimaxRegretDemo
    demo,                 \* the useState values of the demo, by their names
    tasks,                \* the async functions waiting at an await (a bag)
    view,                 \* what the body of the demo derived from its payoffs
    \* History
    memo                  \* the history of the results computed on lesson inputs

scenarioVars == <<payoffs, numStates, maxPayoffs, minPayoffs, bestInColumn,
                  regretMatrix, maxRegrets, maximaxChoice, maximinChoice,
                  minimaxRegretChoice>>
demandVars == <<highDemand, mediumDemand, lowDemand>>
utilityVars == <<total, probabilities, expectedUtilities, bestIndex>>
modeVars == <<location, envMode, defaultMode, provided, context, returned>>
demoVars == <<demo, tasks, view>>
vars == <<component, rendered, thrown, scenarioVars, demandVars, utilityVars, modeVars,
          demoVars, memo>>

(***************************************************************************)
(* Bounds of the model.                                                    *)
(***************************************************************************)
MaxRows == 2         \* alternatives of a generated payoff table
MaxCols == 2         \* states of nature of a generated payoff table
MaxPayoff == 1       \* generated payoffs range over -1..MaxPayoff
MaxStep == 4         \* a stepper reports 0..MaxStep and the values of LessonPercents
MaxScale == 3        \* probability inputs are compared with their 2..MaxScale multiples
ReqSlack == 3        \* requested percentages range over -ReqSlack..100 + ReqSlack

(***************************************************************************)
(* JavaScript built-ins the evaluators use.                                *)
(***************************************************************************)
\* Number.NEGATIVE_INFINITY / POSITIVE_INFINITY: the value Math.max() and
\* Math.min() start from; below (above) every payoff of the model.
NegInfinity == -1000000
PosInfinity == 1000000
\* NaN: what an arithmetic built-in makes of `undefined` (an element read
\* past the end of an array).  It is no payoff, it absorbs max, min and
\* subtraction, and it is equal to nothing, itself included.
NaN == 2000000

\* array[j] (j counted from 1) as a number: NaN where the array has no such
\* element.
At(array, j) == IF j \in 1..Len(array) THEN array[j] ELSE NaN

\* a - b
Minus(a, b) == IF a = NaN \/ b = NaN THEN NaN ELSE a - b

RECURSIVE MathMax(_)
MathMax(s) ==
    IF s = <<>> THEN NegInfinity
    ELSE LET r == MathMax(Tail(s))
         IN  IF Head(s) = NaN \/ r = NaN THEN NaN
             ELSE IF Head(s) > r THEN Head(s) ELSE r

RECURSIVE MathMin(_)
MathMin(s) ==
    IF s = <<>> THEN PosInfinity
    ELSE LET r == MathMin(Tail(s))
         IN  IF Head(s) = NaN \/ r = NaN THEN NaN
             ELSE IF Head(s) < r THEN Head(s) ELSE r

\* (lastIndexOf in the place of indexOf)
IndexOfBad(s, v) ==
    IF \E i \in 1..Len(s) : s[i] = v
    THEN (CHOOSE i \in 1..Len(s) :
              /\ s[i] = v
              /\ \A k \in (i + 1)..Len(s) : s[k] # v) - 1
    ELSE -1

\* Array.prototype.indexOf: the first index (0-based) holding v, -1 if none.
IndexOf(s, v) ==
    IF \E i \in 1..Len(s) : s[i] = v
    THEN (CHOOSE i \in 1..Len(s) :
              /\ s[i] = v
              /\ \A k \in 1..(i - 1) : s[k] # v) - 1
    ELSE -1

\* indexOf on an array of payoffs or regrets, where the value sought may be
\* NaN: indexOf compares with ===, and NaN === NaN is false.
NumberIndexOf(s, v) == IF v = NaN THEN -1 ELSE IndexOf(s, v)

(***************************************************************************)
(* The payoff tables of the source.                                        *)
(***************************************************************************)
scenarios == <<
    << <<200, 100, -50>>, <<150, 120, 30>>, <<80, 80, 80>> >>,
    << <<300, 50, -100>>, <<150, 100, 20>>, <<60, 60, 60>> >>,
    << <<500, 200, -150>>, <<250, 180, 80>>, <<120, 120, 120>> >> >>

\* Well-formed generated tables: 1..MaxRows rows of one length 1..MaxCols.
PayoffValues == (-1)..MaxPayoff
Matrices ==
    UNION { [1..r -> [1..c -> PayoffValues]] : r \in 1..MaxRows, c \in 1..MaxCols }

(***************************************************************************)
(* The criteria, as the component body computes them.                      *)
(***************************************************************************)
MaxPayoffs(p) == [i \in 1..Len(p) |-> MathMax(p[i])]

\* The first payoff of each row instead of the smallest.
MinPayoffsBad(p) == [i \in 1..Len(p) |-> p[i][1]]
MinPayoffs(p) == [i \in 1..Len(p) |-> MathMin(p[i])]

BestInColumnBad(p, n) == [j \in 1..n |-> p[1][j]]
BestInColumn(p, n) == [j \in 1..n |-> MathMax([i \in 1..Len(p) |-> At(p[i], j)])]

RegretMatrixBad(p, best) ==
    [i \in 1..Len(p) |-> [j \in 1..Len(p[i]) |-> p[i][j] - best[j]]]
RegretMatrix(p, best) ==
    [i \in 1..Len(p) |-> [j \in 1..Len(p[i]) |-> Minus(At(best, j), p[i][j])]]

\* The smallest regret of each row instead of the largest.
MaxRegretsBad(rm) == [i \in 1..Len(rm) |-> MathMin(rm[i])]
MaxRegrets(rm) == [i \in 1..Len(rm) |-> MathMax(rm[i])]

MaximaxChoiceBad(mp) == NumberIndexOf(mp, MathMin(mp))
MaximaxChoice(mp) == NumberIndexOf(mp, MathMax(mp))

MaximinChoiceBad(mp) == NumberIndexOf(mp, MathMin(mp))
MaximinChoice(mp) == NumberIndexOf(mp, MathMax(mp))

MinimaxRegretChoiceBad(mr) == NumberIndexOf(mr, MathMax(mr))
MinimaxRegretChoice(mr) == NumberIndexOf(mr, MathMin(mr))

(***************************************************************************)
(* ScenarioExplorer.                                                       *)
(***************************************************************************)
\* What a component has derived while a render is due (before the first one,
\* and between a state change and the render that follows it: every derived
\* value is a local of the component body, recomputed by each render), or
\* while it is not the component under observation.
ScenarioIdle ==
    /\ maxPayoffs = <<>> /\ minPayoffs = <<>> /\ bestInColumn = <<>>
    /\ regretMatrix = <<>> /\ maxRegrets = <<>>
    /\ maximaxChoice = -1 /\ maximinChoice = -1 /\ minimaxRegretChoice = -1

DemandInitial == highDemand = 33 /\ mediumDemand = 34 /\ lowDemand = 33

UtilityIdle ==
    /\ total = 0 /\ probabilities = <<>> /\ expectedUtilities = <<>>
    /\ bestIndex = -1

\* window.location without a query string and without a hash, no environment
\* mode, no provider: the mode context while another component is observed.
ModeIdle ==
    /\ location = [search |-> <<>>, hash |-> [present |-> FALSE, query |-> <<>>]]
    /\ envMode = "undefined"
    /\ defaultMode = "undefined"
    /\ provided = FALSE
    /\ context = <<>>
    /\ returned = <<>>

\* The history of the results.  While memo.on, memo.results holds
\* <<input, result, again>> for each lesson input a render has computed on,
\* with the result of the FIRST such render, and again = TRUE once a later
\* render computed on the same input.  The history is kept for the demos and
\* under SpecLesson.
Remember(lesson, input, result) ==
    memo' = IF ~memo.on \/ ~lesson THEN memo
            ELSE IF \E e \in memo.results : e[1] = input
                 THEN [memo EXCEPT !.results =
                          { IF e[1] = input THEN <<e[1], e[2], TRUE>> ELSE e :
                                e \in memo.results }]
            ELSE [memo EXCEPT !.results = memo.results \cup { <<input, result, FALSE>> }]

\* No demo is mounted.
DemoIdle == demo = <<>> /\ tasks = EmptyBag /\ view = <<>>

\* A body that keeps a cache between renders and, once something has been
\* computed, answers with a stale choice.
CriteriaBad(p, n) ==
    LET maxP == MaxPayoffs(p)
        minP == MinPayoffs(p)
        best == BestInColumn(p, n)
        regret == RegretMatrix(p, best)
        maxR == MaxRegrets(regret)
    IN  [maxPayoffs |-> maxP,
         minPayoffs |-> minP,
         bestInColumn |-> best,
         regretMatrix |-> regret,
         maxRegrets |-> maxR,
         maximaxChoice |-> IF memo.results = {} THEN MaximaxChoice(maxP) ELSE -1,
         maximinChoice |-> MaximinChoice(minP),
         minimaxRegretChoice |-> MinimaxRegretChoice(maxR)]

\* The body of ScenarioExplorer on the table p with n states of nature: every
\* value it derives, by the name the component gives it.
Criteria(p, n) ==
    LET maxP == MaxPayoffs(p)
        minP == MinPayoffs(p)
        best == BestInColumn(p, n)
        regret == RegretMatrix(p, best)
        maxR == MaxRegrets(regret)
    IN  [maxPayoffs |-> maxP,
         minPayoffs |-> minP,
         bestInColumn |-> best,
         regretMatrix |-> regret,
         maxRegrets |-> maxR,
         maximaxChoice |-> MaximaxChoice(maxP),
         maximinChoice |-> MaximinChoice(minP),
         minimaxRegretChoice |-> MinimaxRegretChoice(maxR)]

\* A state change drops what the last render derived.
DropScenario ==
    /\ maxPayoffs' = <<>> /\ minPayoffs' = <<>> /\ bestInColumn' = <<>>
    /\ regretMatrix' = <<>> /\ maxRegrets' = <<>>
    /\ maximaxChoice' = -1 /\ maximinChoice' = -1 /\ minimaxRegretChoice' = -1

DropUtility ==
    /\ total' = 0 /\ probabilities' = <<>> /\ expectedUtilities' = <<>>
    /\ bestIndex' = -1

\* A render that derived the values c.
Evaluate(c) ==
    /\ maxPayoffs' = c.maxPayoffs
    /\ minPayoffs' = c.minPayoffs
    /\ bestInColumn' = c.bestInColumn
    /\ regretMatrix' = c.regretMatrix
    /\ maxRegrets' = c.maxRegrets
    /\ maximaxChoice' = c.maximaxChoice
    /\ maximinChoice' = c.maximinChoice
    /\ minimaxRegretChoice' = c.minimaxRegretChoice

InitScenario ==
    /\ component = "ScenarioExplorer"
    /\ rendered = FALSE
    /\ thrown = "none"
    /\ ModeIdle
    /\ DemoIdle
    /\ memo = [on |-> FALSE, results |-> {}]
    /\ payoffs \in Matrices \cup { scenarios[k] : k \in 1..Len(scenarios) }
    /\ numStates = Len(payoffs[1])
    /\ ScenarioIdle
    /\ DemandInitial
    /\ UtilityIdle

RenderScenario ==
    /\ component = "ScenarioExplorer"
    /\ ~rendered
    /\ rendered' = TRUE
    /\ Evaluate(Criteria(payoffs, numStates))
    /\ Remember(\E k \in 1..Len(scenarios) : payoffs = scenarios[k],
                payoffs, Criteria(payoffs, numStates))
    /\ UNCHANGED <<component, thrown, modeVars, demoVars, payoffs, numStates, demandVars,
                   utilityVars>>

\* onClick={() => setScenario(i)}: the state changes and React schedules the
\* render (RenderScenario is then the only step enabled).
setScenario(i) ==
    /\ component = "ScenarioExplorer"
    /\ rendered
    /\ payoffs' = scenarios[i + 1]
    /\ numStates' = 3
    /\ rendered' = FALSE
    /\ DropScenario
    /\ UNCHANGED <<component, thrown, modeVars, demoVars, memo, demandVars, utilityVars>>

NextScenario ==
    \/ RenderScenario
    \/ \E i \in 0..(Len(scenarios) - 1) : setScenario(i)

SpecScenario == InitScenario /\ [][NextScenario]_vars

\* The same component on a table that is not well formed: no rows, a row
\* without columns, or rows of unequal length; `states` of any length.
WellFormed(p) ==
    /\ Len(p) >= 1
    /\ Len(p[1]) >= 1
    /\ \A i \in 1..Len(p) : Len(p[i]) = Len(p[1])

PayoffRows == UNION { [1..c -> PayoffValues] : c \in 0..MaxCols }
MalformedTables ==
    { p \in UNION { [1..r -> PayoffRows] : r \in 0..MaxRows } : ~WellFormed(p) }

InitMalformed ==
    /\ component = "ScenarioExplorer"
    /\ rendered = FALSE
    /\ thrown = "none"
    /\ ModeIdle
    /\ DemoIdle
    /\ memo = [on |-> FALSE, results |-> {}]
    /\ payoffs \in MalformedTables
    /\ numStates \in 0..MaxCols
    /\ ScenarioIdle
    /\ DemandInitial
    /\ UtilityIdle

SpecMalformed == InitMalformed /\ [][NextScenario]_vars

(***************************************************************************)
(* Numbers that are not integers: exact fractions <<num, den>>, den > 0,   *)
(* in lowest terms.                                                        *)
(***************************************************************************)
Abs(n) == IF n < 0 THEN -n ELSE n

RECURSIVE GCD(_, _)
GCD(a, b) == IF b = 0 THEN a ELSE GCD(b, a % b)

\* n / d for integers n and d > 0.
Frac(n, d) == LET g == GCD(Abs(n), d) IN <<n \div g, d \div g>>
\* a + b
FracAdd(a, b) == Frac(a[1] * b[2] + b[1] * a[2], a[2] * b[2])
\* k * a for an integer k
FracTimes(k, a) == Frac(k * a[1], a[2])
\* a < b
FracLess(a, b) == a[1] * b[2] < b[1] * a[2]

\* Math.max(...s) on a sequence of such numbers.
RECURSIVE FracMathMax(_)
FracMathMax(s) ==
    IF s = <<>> THEN <<NegInfinity, 1>>
    ELSE LET r == FracMathMax(Tail(s)) IN IF FracLess(r, Head(s)) THEN Head(s) ELSE r

(***************************************************************************)
(* ExpectedUtilityCalculator: the expected utilities and the best row.     *)
(***************************************************************************)
\* The `payoffs` literal of ExpectedUtilityCalculator.
calculatorPayoffs == << <<200, 100, -50>>, <<150, 120, 30>>, <<80, 80, 80>> >>

\* row.reduce((sum, payoff, colIndex) => sum + payoff * probabilities[colIndex], 0)
RECURSIVE Reduce(_, _, _, _)
Reduce(row, probs, colIndex, sum) ==
    IF colIndex > Len(row) THEN sum
    ELSE Reduce(row, probs, colIndex + 1,
                FracAdd(sum, FracTimes(row[colIndex], probs[colIndex])))

\* An evaluation that starts each sum from 1 instead of 0.
ExpectedUtilitiesBad(probs) ==
    [i \in 1..Len(calculatorPayoffs) |-> Reduce(calculatorPayoffs[i], probs, 1, <<1, 1>>)]

ExpectedUtilities(probs) ==
    [i \in 1..Len(calculatorPayoffs) |-> Reduce(calculatorPayoffs[i], probs, 1, <<0, 1>>)]

BestIndex(eu) == IndexOf(eu, FracMathMax(eu))

(***************************************************************************)
(* ExpectedUtilitySection, the version with free steppers: each stepper    *)
(* sets its own percentage and the three are normalised by their total.    *)
(***************************************************************************)
\* The percentages a stepper reports (InlineStepper min={0} max={100}
\* step={1}): the small ones and the ones the lesson's text uses.
LessonPercents == {20, 30, 33, 34, 50, 100}
StepperValues == (0..MaxStep) \cup LessonPercents

\* The percentages the lesson starts from and those of its worked example.
lessonPercentages == { <<33, 34, 33>>, <<50, 30, 20>> }

ProbabilitiesBad(h, m, l) == <<Frac(h, 100), Frac(m, 100), Frac(l, 100)>>
Probabilities(h, m, l) ==
    IF h + m + l > 0
    THEN <<Frac(h, h + m + l), Frac(m, h + m + l), Frac(l, h + m + l)>>
    ELSE <<Frac(33, 100), Frac(34, 100), Frac(33, 100)>>

InitNormalized ==
    /\ component = "ExpectedUtilitySection (free steppers)"
    /\ rendered = FALSE
    /\ thrown = "none"
    /\ ModeIdle
    /\ DemoIdle
    /\ memo = [on |-> FALSE, results |-> {}]
    /\ payoffs = <<>> /\ numStates = 0
    /\ ScenarioIdle
    /\ DemandInitial
    /\ UtilityIdle

RenderNormalized ==
    /\ component = "ExpectedUtilitySection (free steppers)"
    /\ ~rendered
    /\ rendered' = TRUE
    /\ total' = highDemand + mediumDemand + lowDemand
    /\ probabilities' = Probabilities(highDemand, mediumDemand, lowDemand)
    /\ expectedUtilities' =
           ExpectedUtilities(Probabilities(highDemand, mediumDemand, lowDemand))
    /\ bestIndex' =
           BestIndex(ExpectedUtilities(Probabilities(highDemand, mediumDemand, lowDemand)))
    /\ Remember(<<highDemand, mediumDemand, lowDemand>> \in lessonPercentages,
                <<highDemand, mediumDemand, lowDemand>>,
                <<Probabilities(highDemand, mediumDemand, lowDemand),
                  ExpectedUtilities(Probabilities(highDemand, mediumDemand, lowDemand)),
                  BestIndex(ExpectedUtilities(
                      Probabilities(highDemand, mediumDemand, lowDemand)))>>)
    /\ UNCHANGED <<component, thrown, modeVars, demoVars, scenarioVars, demandVars>>

setHighDemand(v) ==
    /\ component = "ExpectedUtilitySection (free steppers)"
    /\ rendered
    /\ highDemand' = v
    /\ rendered' = FALSE
    /\ DropUtility
    /\ UNCHANGED <<component, thrown, modeVars, demoVars, memo, scenarioVars, mediumDemand, lowDemand>>

setMediumDemand(v) ==
    /\ component = "ExpectedUtilitySection (free steppers)"
    /\ rendered
    /\ mediumDemand' = v
    /\ rendered' = FALSE
    /\ DropUtility
    /\ UNCHANGED <<component, thrown, modeVars, demoVars, memo, scenarioVars, highDemand, lowDemand>>

setLowDemand(v) ==
    /\ component = "ExpectedUtilitySection (free steppers)"
    /\ rendered
    /\ lowDemand' = v
    /\ rendered' = FALSE
    /\ DropUtility
    /\ UNCHANGED <<component, thrown, modeVars, demoVars, memo, scenarioVars, highDemand, mediumDemand>>

NextNormalized ==
    \/ RenderNormalized
    \/ \E v \in StepperValues : setHighDemand(v)
    \/ \E v \in StepperValues : setMediumDemand(v)
    \/ \E v \in StepperValues : setLowDemand(v)

SpecNormalized == InitNormalized /\ [][NextNormalized]_vars

(***************************************************************************)
(* ExpectedUtilitySection, the version with constrained steppers: the      *)
(* handlers keep the three percentages at a total of 100.                  *)
(***************************************************************************)
\* The value a stepper may hand to its onChange handler.
Requests == (-ReqSlack)..(100 + ReqSlack)

InitConstrained ==
    /\ component = "ExpectedUtilitySection (constrained steppers)"
    /\ rendered = FALSE
    /\ thrown = "none"
    /\ ModeIdle
    /\ DemoIdle
    /\ memo = [on |-> FALSE, results |-> {}]
    /\ payoffs = <<>> /\ numStates = 0
    /\ ScenarioIdle
    /\ DemandInitial
    /\ UtilityIdle

\* const probabilities = [highDemand / 100, mediumDemand / 100, lowDemand / 100]
\* and the body of ExpectedUtilityCalculator.
RenderConstrained ==
    /\ component = "ExpectedUtilitySection (constrained steppers)"
    /\ ~rendered
    /\ rendered' = TRUE
    /\ probabilities' =
           <<Frac(highDemand, 100), Frac(mediumDemand, 100), Frac(lowDemand, 100)>>
    /\ expectedUtilities' = ExpectedUtilities(
           <<Frac(highDemand, 100), Frac(mediumDemand, 100), Frac(lowDemand, 100)>>)
    /\ bestIndex' = BestIndex(ExpectedUtilities(
           <<Frac(highDemand, 100), Frac(mediumDemand, 100), Frac(lowDemand, 100)>>))
    /\ Remember(<<highDemand, mediumDemand, lowDemand>> \in lessonPercentages,
                <<highDemand, mediumDemand, lowDemand>>,
                <<<<Frac(highDemand, 100), Frac(mediumDemand, 100), Frac(lowDemand, 100)>>,
                  ExpectedUtilities(
                      <<Frac(highDemand, 100), Frac(mediumDemand, 100), Frac(lowDemand, 100)>>),
                  BestIndex(ExpectedUtilities(
                      <<Frac(highDemand, 100), Frac(mediumDemand, 100),
                        Frac(lowDemand, 100)>>))>>)
    /\ UNCHANGED <<component, thrown, modeVars, demoVars, scenarioVars, demandVars, total>>

handleHighDemandChangeBad(newValue) ==
    LET clampedValue == MathMax(<<0, MathMin(<<100 - lowDemand, newValue>>)>>)
        newMedium == 100 - newValue - lowDemand
    IN  /\ component = "ExpectedUtilitySection (constrained steppers)"
        /\ rendered
        /\ highDemand' = clampedValue
        /\ mediumDemand' = newMedium
        /\ rendered' = FALSE
        /\ DropUtility
        /\ UNCHANGED <<component, thrown, modeVars, demoVars, memo, scenarioVars, lowDemand>>

handleHighDemandChange(newValue) ==
    LET clampedValue == MathMax(<<0, MathMin(<<100 - lowDemand, newValue>>)>>)
        newMedium == 100 - clampedValue - lowDemand
    IN  /\ component = "ExpectedUtilitySection (constrained steppers)"
        /\ rendered
        /\ highDemand' = clampedValue
        /\ mediumDemand' = newMedium
        /\ rendered' = FALSE
        /\ DropUtility
        /\ UNCHANGED <<component, thrown, modeVars, demoVars, memo, scenarioVars, lowDemand>>

\* A handler that serves the other side first: a rise of mediumDemand is
\* taken from highDemand, a fall is given to lowDemand.
handleMediumDemandChangeBad(newValue) ==
    LET diff == newValue - mediumDemand
        reduceFromHigh == MathMin(<<diff, highDemand>>)
        reduceFromLow == diff - reduceFromHigh
        addToLow == MathMin(<<-diff, 100 - lowDemand>>)
        addToHigh == -diff - addToLow
    IN  /\ component = "ExpectedUtilitySection (constrained steppers)"
        /\ rendered
        /\ IF diff > 0
           THEN IF reduceFromLow <= lowDemand
                THEN /\ mediumDemand' = newValue
                     /\ lowDemand' = lowDemand - reduceFromLow
                     /\ highDemand' = highDemand - reduceFromHigh
                     /\ rendered' = FALSE
                     /\ DropUtility
                ELSE UNCHANGED <<demandVars, rendered, utilityVars>>
           ELSE /\ mediumDemand' = newValue
                /\ highDemand' = highDemand + addToHigh
                /\ lowDemand' = lowDemand + addToLow
                /\ rendered' = FALSE
                /\ DropUtility
        /\ UNCHANGED <<component, thrown, modeVars, demoVars, memo, scenarioVars>>

handleMediumDemandChange(newValue) ==
    LET diff == newValue - mediumDemand
        reduceFromLow == MathMin(<<diff, lowDemand>>)
        reduceFromHigh == diff - reduceFromLow
        addToHigh == MathMin(<<-diff, 100 - highDemand>>)
        addToLow == -diff - addToHigh
    IN  /\ component = "ExpectedUtilitySection (constrained steppers)"
        /\ rendered
        /\ IF diff > 0
           THEN IF reduceFromHigh <= highDemand
                THEN /\ mediumDemand' = newValue
                     /\ lowDemand' = lowDemand - reduceFromLow
                     /\ highDemand' = highDemand - reduceFromHigh
                     /\ rendered' = FALSE
                     /\ DropUtility
                ELSE UNCHANGED <<demandVars, rendered, utilityVars>>
           ELSE /\ mediumDemand' = newValue
                /\ highDemand' = highDemand + addToHigh
                /\ lowDemand' = lowDemand + addToLow
                /\ rendered' = FALSE
                /\ DropUtility
        /\ UNCHANGED <<component, thrown, modeVars, demoVars, memo, scenarioVars>>

\* (the request taken as it comes, without the clamp)
handleLowDemandChangeBad(newValue) ==
    LET clampedValue == newValue
        newMedium == 100 - highDemand - clampedValue
    IN  /\ component = "ExpectedUtilitySection (constrained steppers)"
        /\ rendered
        /\ lowDemand' = clampedValue
        /\ mediumDemand' = newMedium
        /\ rendered' = FALSE
        /\ DropUtility
        /\ UNCHANGED <<component, thrown, modeVars, demoVars, memo, scenarioVars, highDemand>>

handleLowDemandChange(newValue) ==
    LET clampedValue == MathMax(<<0, MathMin(<<100 - highDemand, newValue>>)>>)
        newMedium == 100 - highDemand - clampedValue
    IN  /\ component = "ExpectedUtilitySection (constrained steppers)"
        /\ rendered
        /\ lowDemand' = clampedValue
        /\ mediumDemand' = newMedium
        /\ rendered' = FALSE
        /\ DropUtility
        /\ UNCHANGED <<component, thrown, modeVars, demoVars, memo, scenarioVars, highDemand>>

NextConstrained ==
    \/ RenderConstrained
    \/ \E newValue \in Requests : handleHighDemandChange(newValue)
    \/ \E newValue \in Requests : handleMediumDemandChange(newValue)
    \/ \E newValue \in Requests : handleLowDemandChange(newValue)

SpecConstrained == InitConstrained /\ [][NextConstrained]_vars

\* The same widget when every stepper hands over a value of its own range
\* (InlineStepper min={0} max={100} step={1}).
StepperRange == 0..100

NextInRange ==
    \/ RenderConstrained
    \/ \E newValue \in StepperRange : handleHighDemandChange(newValue)
    \/ \E newValue \in StepperRange : handleMediumDemandChange(newValue)
    \/ \E newValue \in StepperRange : handleLowDemandChange(newValue)

SpecInRange == InitConstrained /\ [][NextInRange]_vars

\* The same widget followed on a sample of the values a handler may be given:
\* both ends of the stepper range, values inside it and values on either
\* side of it.
SampleRequests == {-ReqSlack, 0, 1, 20, 34, 50, 80, 100, 100 + ReqSlack}

NextSampled ==
    \/ RenderConstrained
    \/ \E newValue \in SampleRequests : handleHighDemandChange(newValue)
    \/ \E newValue \in SampleRequests : handleMediumDemandChange(newValue)
    \/ \E newValue \in SampleRequests : handleLowDemandChange(newValue)

SpecSampled == InitConstrained /\ [][NextSampled]_vars

(***************************************************************************)
(* The animated demos: MaximaxDemo, MaximinDemo and MinimaxRegretDemo.     *)
(*                                                                         *)
(* `demo` is the record of the useState values of the demo under           *)
(* observation, each under the name the component gives it.  MaximinDemo   *)
(* is MaximaxDemo with showMinColumn for showMaxColumn and scanningMinCol  *)
(* for scanningMaxCol; the two share the definitions below.                *)
(*                                                                         *)
(* The effect of a step is a list of writes <<name, "set", value>> or      *)
(* <<name, "append", value>> (the updater prev => [...prev, value]).  An   *)
(* async function the effect starts runs up to its first await inside the  *)
(* effect (`sync`); what follows each await is one more list of writes     *)
(* (`rest`), run by a later step of its own when the timer has fired.  The *)
(* effect returns no cleanup: a function that is waiting keeps running     *)
(* whatever the step has become.  A click runs the handler, the render and *)
(* the effect of the new step as one step; a timer runs one list of        *)
(* writes and the render that follows.                                     *)
(***************************************************************************)
MaxTasks == 2                \* async functions waiting at the same time

NumAlternatives == 3         \* alternatives.length
NumStatesOfNature == 3       \* statesOfNature.length

DemoComponents == {"MaximaxDemo", "MaximinDemo", "MinimaxRegretDemo"}

\* The `payoffs` literal of the three demos.
demoPayoffs == << <<200, 100, -50>>, <<150, 120, 30>>, <<80, 80, 80>> >>

\* The step of the final reveal: `disabled={completed || step === 5}`, and
\* `step === 9` in MinimaxRegretDemo.
FinalStep(c) == IF c = "MinimaxRegretDemo" THEN 9 ELSE 5

\* How many async functions the model lets wait at the same time: a click
\* that would start one more is not taken.  MaximaxDemo is followed with up
\* to MaxTasks of them.  MaximinDemo, the same program under other names, and
\* MinimaxRegretDemo, whose animateRegretCalculation has 63 awaits, are
\* followed with one waiting function at a time.
TaskLimit(c) == IF c = "MaximaxDemo" THEN MaxTasks ELSE 1

\* The names MaximinDemo gives to the column flag and the column scanner.
ShowColumn(c) == IF c = "MaximinDemo" THEN "showMinColumn" ELSE "showMaxColumn"
ScanningColumn(c) == IF c = "MaximinDemo" THEN "scanningMinCol" ELSE "scanningMaxCol"

\* The useState initial values.
useState(c) ==
    IF c = "MinimaxRegretDemo"
    THEN [step |-> 0, completed |-> FALSE, scanningCol |-> -1, scanningRow |-> -1,
          showBestRow |-> FALSE, revealedBestCols |-> <<>>,
          showRegretMatrix |-> FALSE, animatingRegretRow |-> -1,
          scanningRegretCol |-> -1, showMaxRegretColumn |-> FALSE,
          revealedMaxRegretRows |-> <<>>, scanningMaxRegretRow |-> -1,
          showFinalChoice |-> FALSE, calculatingRegretCell |-> <<>>,
          calculationPhase |-> "none", revealedRegretCells |-> <<>>]
    ELSE [step |-> 0, completed |-> FALSE, animatingRow |-> -1, scanningCol |-> -1,
          revealedRows |-> <<>>, showFinalChoice |-> FALSE]
         @@ (ScanningColumn(c) :> -1) @@ (ShowColumn(c) :> FALSE)

\* The state s after a write, and after a list of writes.
Write(s, w) ==
    IF w[2] = "set" THEN [s EXCEPT ![w[1]] = w[3]]
    ELSE [s EXCEPT ![w[1]] = Append(@, w[3])]

RECURSIVE WriteAll(_, _)
WriteAll(s, ws) == IF ws = <<>> THEN s ELSE WriteAll(Write(s, Head(ws)), Tail(ws))

\* f[from] \o ... \o f[to]
RECURSIVE Flatten(_, _, _)
Flatten(f, from, to) == IF from > to THEN <<>> ELSE f[from] \o Flatten(f, from + 1, to)

\* animateRows: each row in turn is scanned column by column, its extreme is
\* highlighted and the row is revealed.
animateRows(row, col, revealed) ==
    [sync |-> << <<row, "set", 0>>, <<col, "set", 0>> >>,
     rest |-> Flatten(
        [rowIdx \in 0..(NumAlternatives - 1) |->
            [colIdx \in 1..(NumStatesOfNature - 1) |-> << <<col, "set", colIdx>> >>]
            \o << << <<col, "set", -1>> >>,
                  << <<revealed, "append", rowIdx>> >>,
                  IF rowIdx < NumAlternatives - 1
                  THEN << <<row, "set", rowIdx + 1>>, <<col, "set", 0>> >>
                  ELSE << <<row, "set", -1>> >> >>],
        0, NumAlternatives - 1)]

\* animateCols: each column in turn is scanned row by row, its best payoff is
\* highlighted and the column is revealed.
animateCols ==
    [sync |-> << <<"scanningCol", "set", 0>>, <<"scanningRow", "set", 0>> >>,
     rest |-> Flatten(
        [colIdx \in 0..(NumStatesOfNature - 1) |->
            [rowIdx \in 1..(NumAlternatives - 1) |->
                << <<"scanningCol", "set", colIdx>>, <<"scanningRow", "set", rowIdx>> >>]
            \o << << <<"scanningRow", "set", -1>> >>,
                  << <<"revealedBestCols", "append", colIdx>> >>,
                  IF colIdx < NumStatesOfNature - 1
                  THEN << <<"scanningCol", "set", colIdx + 1>>, <<"scanningRow", "set", 0>> >>
                  ELSE << <<"scanningCol", "set", -1>> >> >>],
        0, NumStatesOfNature - 1)]

\* animateMaxColumn / animateMaxRegretColumn: the extra column is scanned
\* row by row.
animateMaxColumn(scanning) ==
    [sync |-> << <<scanning, "set", 0>> >>,
     rest |-> [rowIdx \in 1..(NumAlternatives - 1) |-> << <<scanning, "set", rowIdx>> >>]
              \o << << <<scanning, "set", -1>> >> >>]

\* animateRegretCalculation: column by column, each cell is typed out in the
\* phases best, minus, payoff, equals, result and then revealed.  The cell
\* {row, col} is <<row, col>>, null is <<>>, and the key `${row}-${col}` of a
\* revealed cell is <<row, col>>.
animateRegretCalculation ==
    LET cells == NumAlternatives * NumStatesOfNature
        rowOf(k) == k % NumAlternatives
        colOf(k) == k \div NumAlternatives
    IN  [sync |-> << <<"calculatingRegretCell", "set", <<0, 0>>>>,
                     <<"calculationPhase", "set", "none">> >>,
         rest |-> Flatten(
            [k \in 0..(cells - 1) |->
                << << <<"calculationPhase", "set", "best">> >>,
                   << <<"calculationPhase", "set", "minus">> >>,
                   << <<"calculationPhase", "set", "payoff">> >>,
                   << <<"calculationPhase", "set", "equals">> >>,
                   << <<"calculationPhase", "set", "result">> >>,
                   << <<"revealedRegretCells", "append", <<rowOf(k), colOf(k)>>>>,
                      <<"calculationPhase", "set", "none">> >>,
                   IF k < cells - 1
                   THEN << <<"calculatingRegretCell", "set", <<rowOf(k + 1), colOf(k + 1)>>>>,
                           <<"calculationPhase", "set", "none">> >>
                   ELSE << <<"calculatingRegretCell", "set", <<>>>> >> >>],
            0, cells - 1)]

\* showDecision: the final choice after 500 ms, completion 1000 ms later.
showDecision ==
    [sync |-> <<>>,
     rest |-> << << <<"showFinalChoice", "set", TRUE>> >>,
                 << <<"completed", "set", TRUE>> >> >>]

noTask == [sync |-> <<>>, rest |-> <<>>]

\* The async function the effect of a step defines and calls.
Program(c, step) ==
    IF c = "MinimaxRegretDemo"
    THEN CASE step = 1 -> animateCols
           [] step = 3 -> animateRegretCalculation
           [] step = 5 -> animateRows("animatingRegretRow", "scanningRegretCol",
                                      "revealedMaxRegretRows")
           [] step = 7 -> animateMaxColumn("scanningMaxRegretRow")
           [] step = 9 -> showDecision
           [] OTHER -> noTask
    ELSE CASE step = 1 -> animateRows("animatingRow", "scanningCol", "revealedRows")
           [] step = 3 -> animateMaxColumn(ScanningColumn(c))
           [] step = 5 -> showDecision
           [] OTHER -> noTask

\* What the effect of a step of MaximaxDemo / MaximinDemo sets before it
\* calls the async function.
extremeEffect(c, step) ==
    CASE step = 0 -> << <<ShowColumn(c), "set", FALSE>>, <<"revealedRows", "set", <<>>>>,
                        <<"scanningCol", "set", -1>>, <<"animatingRow", "set", -1>>,
                        <<ScanningColumn(c), "set", -1>>, <<"showFinalChoice", "set", FALSE>> >>
      [] step = 1 -> << <<ShowColumn(c), "set", TRUE>>, <<"revealedRows", "set", <<>>>>,
                        <<"scanningCol", "set", -1>>, <<"showFinalChoice", "set", FALSE>> >>
      [] step \in {2, 4} ->
                     << <<"revealedRows", "set", <<0, 1, 2>>>>,
                        <<"scanningCol", "set", -1>>, <<"animatingRow", "set", -1>>,
                        <<ScanningColumn(c), "set", -1>>, <<"showFinalChoice", "set", FALSE>> >>
      [] step = 3 -> << <<"revealedRows", "set", <<0, 1, 2>>>>,
                        <<"scanningCol", "set", -1>>, <<"animatingRow", "set", -1>>,
                        <<"showFinalChoice", "set", FALSE>> >>
      [] step = 5 -> << <<"revealedRows", "set", <<0, 1, 2>>>>,
                        <<"scanningCol", "set", -1>>, <<"animatingRow", "set", -1>>,
                        <<ScanningColumn(c), "set", -1>> >>
      [] OTHER -> <<>>

\* The same for MinimaxRegretDemo.
regretEffect(step) ==
    CASE step = 0 -> << <<"showBestRow", "set", FALSE>>, <<"revealedBestCols", "set", <<>>>>,
                        <<"scanningCol", "set", -1>>, <<"scanningRow", "set", -1>>,
                        <<"showRegretMatrix", "set", FALSE>>,
                        <<"showMaxRegretColumn", "set", FALSE>>,
                        <<"revealedMaxRegretRows", "set", <<>>>>,
                        <<"animatingRegretRow", "set", -1>>,
                        <<"scanningRegretCol", "set", -1>>,
                        <<"scanningMaxRegretRow", "set", -1>>,
                        <<"showFinalChoice", "set", FALSE>>,
                        <<"calculatingRegretCell", "set", <<>>>>,
                        <<"calculationPhase", "set", "none">>,
                        <<"revealedRegretCells", "set", <<>>>> >>
      [] step = 1 -> << <<"showBestRow", "set", TRUE>>, <<"revealedBestCols", "set", <<>>>>,
                        <<"showFinalChoice", "set", FALSE>> >>
      [] step = 2 -> << <<"revealedBestCols", "set", <<0, 1, 2>>>>,
                        <<"scanningCol", "set", -1>>, <<"scanningRow", "set", -1>>,
                        <<"showRegretMatrix", "set", FALSE>>,
                        <<"showFinalChoice", "set", FALSE>>,
                        <<"revealedRegretCells", "set", <<>>>> >>
      [] step = 3 -> << <<"revealedBestCols", "set", <<0, 1, 2>>>>,
                        <<"showRegretMatrix", "set", FALSE>>,
                        <<"showMaxRegretColumn", "set", FALSE>>,
                        <<"revealedMaxRegretRows", "set", <<>>>>,
                        <<"showFinalChoice", "set", FALSE>>,
                        <<"revealedRegretCells", "set", <<>>>> >>
      [] step = 4 -> << <<"showRegretMatrix", "set", TRUE>>,
                        <<"showMaxRegretColumn", "set", FALSE>>,
                        <<"revealedMaxRegretRows", "set", <<>>>>,
                        <<"showFinalChoice", "set", FALSE>> >>
      [] step = 5 -> << <<"showMaxRegretColumn", "set", TRUE>>,
                        <<"revealedMaxRegretRows", "set", <<>>>>,
                        <<"showFinalChoice", "set", FALSE>> >>
      [] step = 6 -> << <<"revealedMaxRegretRows", "set", <<0, 1, 2>>>>,
                        <<"scanningRegretCol", "set", -1>>,
                        <<"animatingRegretRow", "set", -1>>,
                        <<"scanningMaxRegretRow", "set", -1>>,
                        <<"showFinalChoice", "set", FALSE>> >>
      [] step = 7 -> << <<"revealedMaxRegretRows", "set", <<0, 1, 2>>>>,
                        <<"showFinalChoice", "set", FALSE>> >>
      [] step = 8 -> << <<"revealedMaxRegretRows", "set", <<0, 1, 2>>>>,
                        <<"scanningMaxRegretRow", "set", -1>>,
                        <<"showFinalChoice", "set", FALSE>> >>
      [] step = 9 -> << <<"revealedMaxRegretRows", "set", <<0, 1, 2>>>>,
                        <<"scanningMaxRegretRow", "set", -1>> >>
      [] OTHER -> <<>>

\* useEffect(..., [step, ...]) on the state s, whose step has just changed:
\* the writes of the branch of s.step, then the async function up to its
\* first await.
useEffect(c, s) ==
    WriteAll(s, (IF c = "MinimaxRegretDemo" THEN regretEffect(s.step)
                 ELSE extremeEffect(c, s.step))
                \o Program(c, s.step).sync)

\* The async function the effect of `step` left waiting, if it has an await.
Started(c, step) ==
    IF Program(c, step).rest # <<>> THEN SetToBag({[step |-> step, pc |-> 1]})
    ELSE EmptyBag

\* The locals the body of a demo derives from its payoffs.
DemoView(c) ==
    CASE c = "MaximaxDemo" ->
            [maxPayoffs |-> MaxPayoffs(demoPayoffs),
             maximaxIndex |-> MaximaxChoice(MaxPayoffs(demoPayoffs))]
      [] c = "MaximinDemo" ->
            [minPayoffs |-> MinPayoffs(demoPayoffs),
             maximinIndex |-> MaximinChoice(MinPayoffs(demoPayoffs))]
      [] OTHER ->
            LET best == BestInColumn(demoPayoffs, NumStatesOfNature)
                regret == RegretMatrix(demoPayoffs, best)
            IN  [bestInColumn |-> best,
                 regretMatrix |-> regret,
                 maxRegrets |-> MaxRegrets(regret),
                 minimaxIndex |-> MinimaxRegretChoice(MaxRegrets(regret))]

\* The demo after its first render and the effect of step 0.
InitDemo ==
    /\ component \in DemoComponents
    /\ rendered = TRUE
    /\ thrown = "none"
    /\ payoffs = <<>> /\ numStates = 0
    /\ ScenarioIdle
    /\ DemandInitial
    /\ UtilityIdle
    /\ ModeIdle
    /\ demo = useEffect(component, useState(component))
    /\ tasks = EmptyBag
    /\ view = DemoView(component)
    /\ memo = [on |-> TRUE, results |-> { <<demoPayoffs, DemoView(component), FALSE>> }]

\* The component renders again: its body derives the locals anew.
RenderDemo ==
    /\ view' = DemoView(component)
    /\ Remember(TRUE, demoPayoffs, DemoView(component))
    /\ UNCHANGED <<component, rendered, thrown, scenarioVars, demandVars, utilityVars,
                   modeVars>>

\* The `disabled` attribute of the two buttons on the state d of the demo c.
ResetDisabled(d) == d.step = 0 /\ ~d.completed
NextDisabled(c, d) == d.completed \/ d.step = FinalStep(c)

\* A Next button that stays enabled at the last step until the demo completes.
NextStepBad ==
    /\ component \in DemoComponents
    /\ ~demo.completed
    /\ Program(component, demo.step + 1).rest # <<>> => BagCardinality(tasks) < TaskLimit(component)
    /\ demo' = useEffect(component, [demo EXCEPT !.step = demo.step + 1])
    /\ tasks' = tasks (+) Started(component, demo.step + 1)
    /\ RenderDemo

\* The second button: onClick={() => setStep(step + 1)},
\* disabled={completed || step === 5}; then the effect of the new step.
NextStep ==
    /\ component \in DemoComponents
    /\ ~NextDisabled(component, demo)
    /\ Program(component, demo.step + 1).rest # <<>> => BagCardinality(tasks) < TaskLimit(component)
    /\ demo' = useEffect(component, [demo EXCEPT !.step = demo.step + 1])
    /\ tasks' = tasks (+) Started(component, demo.step + 1)
    /\ RenderDemo

\* The first button: onClick={() => { setStep(0); setCompleted(false); }},
\* disabled={step === 0 && !completed}.  The effect runs when step changed.
Reset ==
    /\ component \in DemoComponents
    /\ ~ResetDisabled(demo)
    /\ demo' = IF demo.step # 0
               THEN useEffect(component, [demo EXCEPT !.step = 0, !.completed = FALSE])
               ELSE [demo EXCEPT !.completed = FALSE]
    /\ UNCHANGED tasks
    /\ RenderDemo

\* A timer fires: the waiting function t runs up to its next await, or to
\* its end.
Resume(t) ==
    /\ component \in DemoComponents
    /\ BagIn(t, tasks)
    /\ demo' = WriteAll(demo, Program(component, t.step).rest[t.pc])
    /\ tasks' = (tasks (-) SetToBag({t}))
                 (+) (IF t.pc < Len(Program(component, t.step).rest)
                      THEN SetToBag({[t EXCEPT !.pc = t.pc + 1]})
                      ELSE EmptyBag)
    /\ RenderDemo

NextDemo ==
    \/ NextStep
    \/ Reset
    \/ \E t \in BagToSet(tasks) : Resume(t)

SpecDemo == InitDemo /\ [][NextDemo]_vars

\* A timer that has been set fires: while a function is waiting, one is
\* resumed.
SpecDemoLive == SpecDemo /\ WF_vars(\E t \in BagToSet(tasks) : Resume(t))

(***************************************************************************)
(* The lesson: the scenario explorer, the constrained calculator or one of *)
(* the demos, as mounted, with the history of the results switched on.     *)
(***************************************************************************)
InitLesson ==
    \/ InitDemo
    \/ /\ component = "ScenarioExplorer"
       /\ payoffs = scenarios[1] /\ numStates = 3
       /\ rendered = FALSE /\ thrown = "none"
       /\ ScenarioIdle /\ DemandInitial /\ UtilityIdle /\ ModeIdle /\ DemoIdle
       /\ memo = [on |-> TRUE, results |-> {}]
    \/ /\ component = "ExpectedUtilitySection (constrained steppers)"
       /\ payoffs = <<>> /\ numStates = 0
       /\ rendered = FALSE /\ thrown = "none"
       /\ ScenarioIdle /\ DemandInitial /\ UtilityIdle /\ ModeIdle /\ DemoIdle
       /\ memo = [on |-> TRUE, results |-> {}]

NextLesson ==
    \/ NextDemo
    \/ NextScenario
    \/ RenderConstrained
    \/ \E newValue \in StepperValues : handleHighDemandChange(newValue)
    \/ \E newValue \in StepperValues : handleMediumDemandChange(newValue)
    \/ \E newValue \in StepperValues : handleLowDemandChange(newValue)

SpecLesson == InitLesson /\ [][NextLesson]_vars

(***************************************************************************)
(* AppModeContext: the mode of the application, resolved by               *)
(* AppModeProvider from the URL, the environment and its defaultMode prop, *)
(* and handed to consumers by useAppMode.                                  *)
(*                                                                         *)
(* A query string is the sequence of its parameters <<key, value>>, in     *)
(* the order of the text ("?tab=1&mode=preview" is                         *)
(* << <<"tab", "1">>, <<"mode", "preview">> >>, and <<>> is no query       *)
(* string).  window.location.hash is "" (present = FALSE) or "#/" followed *)
(* by a query string.  `undefined` and `null` are the strings "undefined"  *)
(* and "null", which no parameter of the model has as its value.           *)
(***************************************************************************)
MaxParams == 2       \* parameters of a generated query string

Params ==
    { <<"mode", v>> : v \in {"editor", "preview", "draft", ""} } \cup { <<"tab", "1">> }

RECURSIVE QueryStringsOf(_)
QueryStringsOf(n) ==
    IF n = 0 THEN { <<>> }
    ELSE QueryStringsOf(n - 1) \cup
         { Append(q, p) : q \in { r \in QueryStringsOf(n - 1) : Len(r) = n - 1 }, p \in Params }

QueryStrings == QueryStringsOf(MaxParams)

Locations ==
    { [search |-> s, hash |-> [present |-> FALSE, query |-> <<>>]] : s \in QueryStrings }
    \cup
    { [search |-> s, hash |-> [present |-> TRUE, query |-> q]] :
          s \in QueryStrings, q \in QueryStrings }

\* new URLSearchParams(text).get(key): the value of the first parameter named
\* key, null when there is none.
RECURSIVE Get(_, _)
Get(query, key) ==
    IF query = <<>> THEN "null"
    ELSE IF Head(query)[1] = key THEN Head(query)[2]
    ELSE Get(Tail(query), key)

\* !value for a string or null.
Falsy(value) == value \in {"null", "undefined", ""}

\* text.match(/[?&]mode=(editor|preview)/) on a text whose parameters, each
\* behind a "?" or a "&", are those of query: the group of the first match,
\* null when nothing matches.
RECURSIVE ModeMatch(_)
ModeMatch(query) ==
    IF query = <<>> THEN "null"
    ELSE IF Head(query)[1] = "mode" /\ Head(query)[2] \in {"editor", "preview"}
         THEN Head(query)[2]
    ELSE ModeMatch(Tail(query))

\* window.location.href: the parameters of the query string, then those of
\* the hash.
Href(loc) == loc.search \o loc.hash.query

getAppMode(loc, env, dflt) ==
    LET \* Pattern 1: regular query string before the hash
        urlMode1 == Get(loc.search, "mode")
        \* Pattern 2: query string after the hash; hash.split('?') has more
        \* than one part when the hash carries a query string
        urlMode2 == IF Falsy(urlMode1) /\ loc.hash.present /\ loc.hash.query # <<>>
                    THEN Get(loc.hash.query, "mode")
                    ELSE urlMode1
        \* Pattern 3: the full href
        urlMode3 == IF Falsy(urlMode2) /\ ModeMatch(Href(loc)) # "null"
                    THEN ModeMatch(Href(loc))
                    ELSE urlMode2
    IN  IF urlMode3 = "editor" \/ urlMode3 = "preview" THEN urlMode3
        ELSE IF env = "editor" \/ env = "preview" THEN env
        ELSE dflt

\* The values VITE_APP_MODE and the defaultMode prop may have; an omitted
\* prop takes the default 'editor' of the parameter list.
EnvModes == {"undefined", "editor", "preview", "production"}
DefaultModes == {"undefined", "editor", "preview"}

InitAppMode ==
    /\ component = "AppModeProvider"
    /\ rendered = FALSE
    /\ thrown = "none"
    /\ payoffs = <<>> /\ numStates = 0
    /\ ScenarioIdle
    /\ DemandInitial
    /\ UtilityIdle
    /\ provided \in BOOLEAN
    /\ IF provided
       THEN /\ location \in Locations
            /\ envMode \in EnvModes
            /\ defaultMode \in DefaultModes
       ELSE /\ location = [search |-> <<>>, hash |-> [present |-> FALSE, query |-> <<>>]]
            /\ envMode = "undefined"
            /\ defaultMode = "undefined"
    /\ context = <<>>
    /\ returned = <<>>
    /\ DemoIdle
    /\ memo = [on |-> FALSE, results |-> {}]

\* The body of AppModeProvider: the mode and the memoised context value.
AppModeProvider ==
    /\ component = "AppModeProvider"
    /\ provided
    /\ ~rendered
    /\ LET mode == getAppMode(location, envMode,
                               IF defaultMode = "undefined" THEN "editor" ELSE defaultMode)
       IN  context' = << [mode |-> mode,
                          isEditor |-> (mode = "editor"),
                          isPreview |-> (mode = "preview")] >>
    /\ rendered' = TRUE
    /\ UNCHANGED <<component, thrown, scenarioVars, demandVars, utilityVars,
                   demoVars, memo, location, envMode, defaultMode, provided, returned>>

\* A hook that falls back to the editor mode where there is no provider.
useAppModeBad ==
    /\ component = "AppModeProvider"
    /\ provided => rendered
    /\ returned = <<>> /\ thrown = "none"
    /\ returned' = IF context = <<>>
                   THEN << [mode |-> "editor", isEditor |-> TRUE, isPreview |-> TRUE] >>
                   ELSE context
    /\ UNCHANGED <<component, rendered, thrown, scenarioVars, demandVars, utilityVars,
                   demoVars, memo, location, envMode, defaultMode, provided, context>>

\* The hook in a consumer: below a provider it runs after the provider's
\* body, without one it reads the default `undefined` of createContext.
useAppMode ==
    /\ component = "AppModeProvider"
    /\ provided => rendered
    /\ returned = <<>> /\ thrown = "none"
    /\ IF context = <<>>
       THEN /\ thrown' = "useAppMode must be used within AppModeProvider"
            /\ UNCHANGED returned
       ELSE /\ returned' = context
            /\ UNCHANGED thrown
    /\ UNCHANGED <<component, rendered, scenarioVars, demandVars, utilityVars,
                   demoVars, memo, location, envMode, defaultMode, provided, context>>

NextAppMode ==
    \/ AppModeProvider
    \/ useAppMode

SpecAppMode == InitAppMode /\ [][NextAppMode]_vars

(***************************************************************************)
(* The four criteria together: the scenario explorer or the calculator.    *)
(***************************************************************************)
InitCriteria == InitScenario \/ InitNormalized
NextCriteria == NextScenario \/ NextNormalized
SpecCriteria == InitCriteria /\ [][NextCriteria]_vars

(***************************************************************************)
(* Properties of the three table criteria (ScenarioExplorer).              *)
(***************************************************************************)
Rows == 1..Len(payoffs)
Cols == 1..Len(payoffs[1])
Evaluated == component = "ScenarioExplorer" /\ rendered

\* v is the largest (smallest) element of the non-empty sequence s.
IsMaxOf(v, s) == (\E k \in 1..Len(s) : s[k] = v) /\ (\A k \in 1..Len(s) : s[k] <= v)
IsMinOf(v, s) == (\E k \in 1..Len(s) : s[k] = v) /\ (\A k \in 1..Len(s) : s[k] >= v)
Column(j) == [i \in Rows |-> payoffs[i][j]]

\* C1. Maximax: on every well-formed table the supporting values are the
\* per-row maxima, and the chosen index names a row whose maximum is >= the
\* maximum of every row.
MaximaxCorrect ==
    Evaluated =>
        /\ Len(maxPayoffs) = Len(payoffs)
        /\ \A i \in Rows : IsMaxOf(maxPayoffs[i], payoffs[i])
        /\ maximaxChoice \in 0..(Len(payoffs) - 1)
        /\ \A i \in Rows : \A j \in Cols :
               \E k \in Cols : payoffs[maximaxChoice + 1][k] >= payoffs[i][j]

\* A table whose largest row maximum is not in the first row has been evaluated.
MaximaxWitness ==
    /\ Evaluated
    /\ Len(payoffs) >= 2
    /\ maximaxChoice = 1
    /\ maxPayoffs[1] < maxPayoffs[2]

\* C2. Maximin: on every well-formed table the supporting values are the
\* per-row minima, and the chosen index names a row whose minimum is >= the
\* minimum of every row.
MaximinCorrect ==
    Evaluated =>
        /\ Len(minPayoffs) = Len(payoffs)
        /\ \A i \in Rows : IsMinOf(minPayoffs[i], payoffs[i])
        /\ maximinChoice \in 0..(Len(payoffs) - 1)
        /\ \A i \in Rows : \E j \in Cols :
               \A k \in Cols : payoffs[maximinChoice + 1][k] >= payoffs[i][j]

\* A table whose largest row minimum is not in the first row, and whose
\* Maximin row differs from its Maximax row, has been evaluated.
MaximinWitness ==
    /\ Evaluated
    /\ Len(payoffs) >= 2
    /\ maximinChoice = 1
    /\ minPayoffs[1] < minPayoffs[2]
    /\ maximaxChoice # maximinChoice

\* C3. Minimax Regret: the supporting values are the per-row maxima of the
\* regret matrix, and the chosen index names a row whose maximum regret is
\* <= the maximum regret of every row.
MinimaxRegretCorrect ==
    Evaluated =>
        /\ Len(maxRegrets) = Len(payoffs)
        /\ \A i \in Rows : IsMaxOf(maxRegrets[i], regretMatrix[i])
        /\ minimaxRegretChoice \in 0..(Len(payoffs) - 1)
        /\ \A i \in Rows : \E j \in Cols :
               \A k \in Cols :
                   regretMatrix[minimaxRegretChoice + 1][k] <= regretMatrix[i][j]

\* A table whose smallest maximum regret is not in the first row has been
\* evaluated.
MinimaxRegretWitness ==
    /\ Evaluated
    /\ Len(payoffs) >= 2
    /\ minimaxRegretChoice = 1
    /\ maxRegrets[1] > maxRegrets[2]

\* C4. Every entry of the regret matrix is >= 0 and every column of it holds
\* a 0.
RegretNonNegative ==
    Evaluated =>
        /\ \A i \in Rows : \A j \in Cols : regretMatrix[i][j] >= 0
        /\ \A j \in Cols : \E i \in Rows : regretMatrix[i][j] = 0

\* A table with negative payoffs and a positive regret has been evaluated.
RegretNonNegativeWitness ==
    /\ Evaluated
    /\ Len(payoffs) >= 2
    /\ \E i \in Rows : \E j \in Cols : payoffs[i][j] < 0 /\ regretMatrix[i][j] > 0
    /\ \E j \in Cols : payoffs[1][j] < payoffs[2][j]

\* C5. The regret matrix has the shape of the payoff table, regret[i][j] is
\* the largest payoff of column j minus payoff[i][j], and computing it leaves
\* the payoff table as it was: the table changes only by a scenario switch.
RegretShape ==
    Evaluated =>
        /\ Len(regretMatrix) = Len(payoffs)
        /\ \A i \in Rows : Len(regretMatrix[i]) = Len(payoffs[i])
        /\ \A i \in Rows : \A j \in Cols :
               \E r \in Rows :
                   /\ IsMaxOf(payoffs[r][j], Column(j))
                   /\ regretMatrix[i][j] = payoffs[r][j] - payoffs[i][j]

PayoffsKept ==
    /\ (~rendered /\ rendered') => payoffs' = payoffs
    /\ payoffs' # payoffs => \E k \in 1..Len(scenarios) : payoffs' = scenarios[k]

RegretDefinition == [](RegretShape) /\ [][PayoffsKept]_vars

\* A table whose column maxima differ and sit in different rows has been
\* evaluated.
RegretDefinitionWitness ==
    /\ Evaluated
    /\ Len(payoffs) = 2 /\ Len(payoffs[1]) = 2
    /\ bestInColumn[1] # bestInColumn[2]
    /\ regretMatrix[1][1] = 0 /\ regretMatrix[1][2] > 0
    /\ regretMatrix[2][2] = 0 /\ regretMatrix[2][1] > 0

Normalised == component = "ExpectedUtilitySection (free steppers)" /\ rendered
inputs == <<highDemand, mediumDemand, lowDemand>>
\* The sum over the columns j of payoff[i][j] * input[j].
WeightedSum(i) ==
    calculatorPayoffs[i][1] * highDemand + calculatorPayoffs[i][2] * mediumDemand
        + calculatorPayoffs[i][3] * lowDemand

\* C6. With a positive total of the three inputs, the expected value of
\* alternative i is the sum over j of payoff[i][j] * (input[j] / total), and
\* the chosen index names an alternative of highest expected value.
ExpectedUtilityNormalised ==
    (Normalised /\ highDemand + mediumDemand + lowDemand > 0) =>
        /\ Len(expectedUtilities) = 3
        /\ \A i \in 1..3 :
               /\ expectedUtilities[i][2] > 0
               /\ expectedUtilities[i][1] * (highDemand + mediumDemand + lowDemand)
                      = WeightedSum(i) * expectedUtilities[i][2]
        /\ bestIndex \in 0..2
        /\ \A i \in 1..3 : WeightedSum(bestIndex + 1) >= WeightedSum(i)

\* Inputs that do not total 100 have been rendered, and the best alternative
\* is not the first.
ExpectedUtilityNormalisedWitness ==
    /\ Normalised
    /\ inputs = <<1, 2, 4>>
    /\ expectedUtilities = <<<<200, 7>>, <<510, 7>>, <<80, 1>>>>
    /\ bestIndex = 2

\* C7. Scale invariance: with a positive total, the inputs multiplied by a
\* positive constant k give the expected values and the chosen index of the
\* inputs themselves.
ScaleInvariant ==
    (Normalised /\ highDemand + mediumDemand + lowDemand > 0) =>
        \A k \in 2..MaxScale :
            LET scaled == ExpectedUtilities(
                              Probabilities(k * highDemand, k * mediumDemand, k * lowDemand))
            IN  /\ scaled = expectedUtilities
                /\ BestIndex(scaled) = bestIndex

\* Inputs that are the double of other inputs of the stepper range, their
\* total not 100, have been rendered.
ScaleInvariantWitness ==
    /\ Normalised
    /\ inputs = <<2, 4, 2>>
    /\ \A j \in 1..3 : (inputs[j] \div 2) \in StepperValues
    /\ expectedUtilities = <<<<175, 2>>, <<105, 1>>, <<80, 1>>>>
    /\ bestIndex = 1

Constrained == component = "ExpectedUtilitySection (constrained steppers)"

\* C10. In the constrained widget highDemand + mediumDemand + lowDemand is
\* 100 in every reachable state, whatever values the handlers were given.
TotalIs100 == Constrained => highDemand + mediumDemand + lowDemand = 100

\* The handlers have moved all three percentages away from 33/34/33, one of
\* them by a request outside 0..100.
TotalIs100Witness ==
    /\ Constrained
    /\ rendered
    /\ highDemand # 33 /\ lowDemand # 33
    /\ mediumDemand < 0

\* C11. With requested values in 0..100, each of highDemand, mediumDemand and
\* lowDemand is an integer of 0..100 in every reachable state.
PercentagesInRange ==
    Constrained =>
        /\ highDemand \in 0..100
        /\ mediumDemand \in 0..100
        /\ lowDemand \in 0..100

\* The steppers have driven one percentage to 100 and the other two to 0.
PercentagesInRangeWitness ==
    /\ Constrained
    /\ rendered
    /\ lowDemand = 100 /\ highDemand = 0 /\ mediumDemand = 0

\* v clamped to the interval [lo, hi].
Clamp(v, lo, hi) == IF v < lo THEN lo ELSE IF v > hi THEN hi ELSE v

\* C23. handleHighDemandChange(v) clamps v to [0, 100 - lowDemand], sets
\* highDemand to the clamped value and mediumDemand to
\* 100 - highDemand - lowDemand, and leaves lowDemand unchanged;
\* handleLowDemandChange(v) is the mirror image: it clamps v to
\* [0, 100 - highDemand], gives mediumDemand the remainder and leaves
\* highDemand unchanged.
HighLowClampAndFrame ==
    [][(Constrained /\ rendered) =>
         \A v \in SampleRequests :
            /\ handleHighDemandChange(v) =>
                   /\ highDemand' = Clamp(v, 0, 100 - lowDemand)
                   /\ mediumDemand' = 100 - highDemand' - lowDemand
                   /\ lowDemand' = lowDemand
            /\ handleLowDemandChange(v) =>
                   /\ lowDemand' = Clamp(v, 0, 100 - highDemand)
                   /\ mediumDemand' = 100 - highDemand - lowDemand'
                   /\ highDemand' = highDemand]_vars

\* A request above the range has just been clamped by handleHighDemandChange:
\* from 33 / 34 / 33 highDemand stops at 100 - lowDemand = 67, mediumDemand
\* is the remainder 0 and lowDemand is still 33.
HighLowClampAndFrameWitness ==
    /\ Constrained
    /\ ~rendered
    /\ highDemand = 67 /\ mediumDemand = 0 /\ lowDemand = 33

\* C24. When handleMediumDemandChange raises mediumDemand by d > 0,
\* lowDemand is reduced first, by min(d, lowDemand), and highDemand is
\* reduced only by the part of d that lowDemand could not absorb, so that
\* highDemand is unchanged whenever d <= lowDemand; if that remaining part
\* exceeds highDemand, none of the three values changes.
MediumRiseTakesLowFirst ==
    [][(Constrained /\ rendered) =>
         \A v \in SampleRequests :
            (handleMediumDemandChange(v) /\ v > mediumDemand) =>
                LET d == v - mediumDemand
                    fromLow == IF d < lowDemand THEN d ELSE lowDemand
                    remaining == d - fromLow
                IN  IF remaining > highDemand
                    THEN /\ highDemand' = highDemand
                         /\ mediumDemand' = mediumDemand
                         /\ lowDemand' = lowDemand
                    ELSE /\ mediumDemand' = mediumDemand + d
                         /\ lowDemand' = lowDemand - fromLow
                         /\ highDemand' = highDemand - remaining
                         /\ d <= lowDemand => highDemand' = highDemand]_vars

\* mediumDemand has just been raised from 34 to 80 at 33 / 34 / 33: lowDemand
\* gave its 33 and highDemand the remaining 13.
MediumRiseTakesLowFirstWitness ==
    /\ Constrained
    /\ ~rendered
    /\ highDemand = 20 /\ mediumDemand = 80 /\ lowDemand = 0

\* C25. In every state reachable with requested values in 0..100, lowering
\* mediumDemand by d >= 0 through handleMediumDemandChange adds the whole of
\* d to highDemand and leaves lowDemand unchanged: the branch that would add
\* to lowDemand is never taken with a non-zero amount.  (A call that does not
\* raise mediumDemand stores its request in mediumDemand, so the request of
\* such a step is the mediumDemand it ends with.)
MediumFallGoesToHigh ==
    [][(Constrained /\ rendered /\ mediumDemand' <= mediumDemand
           /\ handleMediumDemandChange(mediumDemand')) =>
         LET d == mediumDemand - mediumDemand'
         IN  /\ highDemand' = highDemand + d
             /\ lowDemand' = lowDemand]_vars

\* mediumDemand has just been lowered from 34 to 20 at 33 / 34 / 33: the 14
\* went to highDemand.
MediumFallGoesToHighWitness ==
    /\ Constrained
    /\ ~rendered
    /\ highDemand = 47 /\ mediumDemand = 20 /\ lowDemand = 33

\* C26. Every handler of the constrained widget clamps its requested value:
\* for any integer newValue, also below 0 or above 100, handed to
\* handleHighDemandChange, handleMediumDemandChange or handleLowDemandChange
\* in a state whose three percentages lie in [0,100] and sum to 100, the
\* three resulting percentages again all lie in [0,100].
HandlersClamp ==
    [][(/\ Constrained
        /\ rendered
        /\ highDemand \in 0..100 /\ mediumDemand \in 0..100 /\ lowDemand \in 0..100
        /\ highDemand + mediumDemand + lowDemand = 100
        /\ \E newValue \in Requests :
               \/ handleHighDemandChange(newValue)
               \/ handleMediumDemandChange(newValue)
               \/ handleLowDemandChange(newValue))
       => /\ highDemand' \in 0..100
          /\ mediumDemand' \in 0..100
          /\ lowDemand' \in 0..100]_vars

\* C15. With highDemand = 50, mediumDemand = 30 and lowDemand = 20 (the
\* probabilities 50% / 30% / 20%) on the product-launch payoffs, the expected
\* value of row 0 is 120 and the chosen index is that of an alternative whose
\* expected value is the highest of the three rows.
ProductLaunchExpectedValue ==
    (Constrained /\ rendered /\ <<highDemand, mediumDemand, lowDemand>> = <<50, 30, 20>>) =>
        /\ calculatorPayoffs = << <<200, 100, -50>>, <<150, 120, 30>>, <<80, 80, 80>> >>
        /\ probabilities = <<Frac(50, 100), Frac(30, 100), Frac(20, 100)>>
        /\ expectedUtilities[1] = <<120, 1>>
        /\ bestIndex \in 0..2
        /\ \A i \in 1..3 :
               ~FracLess(expectedUtilities[bestIndex + 1], expectedUtilities[i])

\* The steppers have been brought to 50 / 30 / 20 and the calculator has
\* rendered: the rows are worth 120, 117 and 80 and row 0 is chosen.
ProductLaunchExpectedValueWitness ==
    /\ Constrained
    /\ rendered
    /\ <<highDemand, mediumDemand, lowDemand>> = <<50, 30, 20>>
    /\ expectedUtilities = << <<120, 1>>, <<117, 1>>, <<80, 1>> >>
    /\ bestIndex = 0

(***************************************************************************)
(* Properties of the animated demos.                                       *)
(***************************************************************************)
Demo == component \in DemoComponents

productLaunch == << <<200, 100, -50>>, <<150, 120, 30>>, <<80, 80, 80>> >>

\* C13. On the product-launch matrix [[200,100,-50],[150,120,30],[80,80,80]]
\* Maximax derives the row maxima [200,150,80] and chooses index 0, and
\* Maximin derives the row minima [-50,30,80] and chooses index 2.
ProductLaunchExtremes ==
    /\ (component = "MaximaxDemo" /\ demoPayoffs = productLaunch) =>
           /\ view.maxPayoffs = <<200, 150, 80>>
           /\ view.maximaxIndex = 0
    /\ (component = "MaximinDemo" /\ demoPayoffs = productLaunch) =>
           /\ view.minPayoffs = <<-50, 30, 80>>
           /\ view.maximinIndex = 2

\* MaximinDemo has been stepped to its final reveal and shows the choice of
\* row 2.
ProductLaunchExtremesWitness ==
    /\ component = "MaximinDemo"
    /\ demo.step = 5
    /\ demo.showFinalChoice
    /\ view.maximinIndex = 2

\* C14. On the product-launch matrix Minimax Regret derives bestInColumn
\* [200,120,80], the regret rows [0,20,130], [50,0,50], [120,40,0] and the
\* maximum regrets [130,50,120], and chooses index 1.
ProductLaunchRegret ==
    (component = "MinimaxRegretDemo" /\ demoPayoffs = productLaunch) =>
        /\ view.bestInColumn = <<200, 120, 80>>
        /\ view.regretMatrix = << <<0, 20, 130>>, <<50, 0, 50>>, <<120, 40, 0>> >>
        /\ view.maxRegrets = <<130, 50, 120>>
        /\ view.minimaxIndex = 1

\* MinimaxRegretDemo has been stepped to its final reveal and shows the
\* choice of row 1.
ProductLaunchRegretWitness ==
    /\ component = "MinimaxRegretDemo"
    /\ demo.step = 9
    /\ demo.showFinalChoice
    /\ view.minimaxIndex = 1

\* C19. In each animated demo, whenever step is 0 only the original table is
\* shown: the extra column / row flag is false, the revealed lists are empty,
\* every scanning / animating index is -1 and showFinalChoice is false; in
\* every reachable state, also after Reset while timers of an earlier step
\* are pending.
OriginalTableAtStepZero ==
    (Demo /\ demo.step = 0) =>
        IF component = "MinimaxRegretDemo"
        THEN /\ ~demo.showBestRow
             /\ ~demo.showMaxRegretColumn
             /\ demo.revealedBestCols = <<>>
             /\ demo.revealedMaxRegretRows = <<>>
             /\ demo.revealedRegretCells = <<>>
             /\ demo.scanningCol = -1
             /\ demo.scanningRow = -1
             /\ demo.animatingRegretRow = -1
             /\ demo.scanningRegretCol = -1
             /\ demo.scanningMaxRegretRow = -1
             /\ ~demo.showFinalChoice
        ELSE /\ ~demo[ShowColumn(component)]
             /\ demo.revealedRows = <<>>
             /\ demo.animatingRow = -1
             /\ demo.scanningCol = -1
             /\ demo[ScanningColumn(component)] = -1
             /\ ~demo.showFinalChoice

\* C20. In each animated demo, once step is the final reveal step and the
\* user does nothing more, showFinalChoice becomes true and then completed
\* becomes true, showFinalChoice being set before completed: while step is
\* the final step, completed is true only when showFinalChoice is.
FinalChoiceBeforeCompleted ==
    (Demo /\ demo.step = FinalStep(component) /\ demo.completed) => demo.showFinalChoice

\* C21. In each animated demo completed is true only while step is the final
\* reveal step, and showFinalChoice is true only while step is that step:
\* whatever the order of Reset / Next clicks and pending timers, there is no
\* state with step 0 and completed true, or step 0 and the final choice shown.
FinalOnlyAtFinalStep ==
    Demo => /\ demo.completed => demo.step = FinalStep(component)
            /\ demo.showFinalChoice => demo.step = FinalStep(component)

\* What C22 says of one state d of the demo c.
StepState(c, d) ==
    /\ d.step \in 0..FinalStep(c)
    /\ (d.step = FinalStep(c) \/ d.completed) => NextDisabled(c, d)
    /\ ResetDisabled(d) <=> (d.step = 0 /\ ~d.completed)

\* C22. In each animated demo step stays within 0..5 (0..9 in
\* MinimaxRegretDemo) in every reachable state.  Next increases step by
\* exactly 1 and is disabled when step is the last step or completed is true;
\* Reset sets step to 0 and completed to false and is disabled exactly when
\* step is 0 and completed is false.  Nothing else changes step.
StepWithinRange ==
    [][Demo =>
         /\ StepState(component, demo) /\ StepState(component, demo')
         /\ NextStep => /\ demo'.step = demo.step + 1
                        /\ ~NextDisabled(component, demo)
         /\ Reset => /\ demo'.step = 0 /\ ~demo'.completed
                     /\ ~ResetDisabled(demo)
         /\ demo'.step # demo.step => NextStep \/ Reset]_vars

StepWithinRangeWitness ==
    /\ component = "MinimaxRegretDemo"
    /\ demo.step = 9
    /\ demo.completed
    /\ NextDisabled(component, demo)
    /\ ~ResetDisabled(demo)

\* The liveness half of C20, under SpecDemoLive: at the final step the final
\* choice appears, and with it shown the demo completes, unless the user
\* presses Reset first.
FinalChoiceEventually ==
    /\ (Demo /\ demo.step = FinalStep(component))
           ~> (demo.showFinalChoice \/ demo.step # FinalStep(component))
    /\ (Demo /\ demo.step = FinalStep(component) /\ demo.showFinalChoice)
           ~> (demo.completed \/ demo.step # FinalStep(component))

SameResultAgainElsewhere ==
    \/ /\ Constrained /\ rendered /\ memo.on
       /\ inputs = <<33, 34, 33>>
       /\ \E e \in memo.results : e[1] = inputs /\ e[3]
       /\ \E e \in memo.results : e[1] # inputs
    \/ /\ Demo
       /\ demo.step = 0
       /\ tasks # EmptyBag
       /\ \E e \in memo.results : e[3]

(***************************************************************************)
(* Properties of the application mode.                                     *)
(***************************************************************************)
Modes == {"editor", "preview"}

\* The mode the priority list names: the mode of the query string, else that
\* of the query part after the hash, else that found in the full href, else
\* VITE_APP_MODE when it is a mode, else defaultMode ('editor' when omitted).
PriorityMode ==
    LET inSearch == Get(location.search, "mode")
        inHash == Get(location.hash.query, "mode")
        inHref == ModeMatch(Href(location))
    IN  IF inSearch \in Modes THEN inSearch
        ELSE IF inHash \in Modes THEN inHash
        ELSE IF inHref \in Modes THEN inHref
        ELSE IF envMode \in Modes THEN envMode
        ELSE IF defaultMode = "undefined" THEN "editor"
        ELSE defaultMode

\* C17. getAppMode resolves the mode by priority: a mode found in the URL
\* (query string, then the query part after the hash, then the full href)
\* wins, otherwise VITE_APP_MODE when it is 'editor' or 'preview', otherwise
\* defaultMode; the result is always 'editor' or 'preview'.
UrlModeWins ==
    (component = "AppModeProvider" /\ context # <<>>) =>
        /\ context[1].mode \in Modes
        /\ context[1].mode = PriorityMode

\* C18. useAppMode throws 'useAppMode must be used within AppModeProvider'
\* where there is no provider; below a provider it returns a value of which
\* exactly one of isEditor and isPreview is true, in agreement with mode.
UseAppModeContract ==
    component = "AppModeProvider" =>
        /\ ~provided => returned = <<>>
        /\ thrown # "none" =>
               /\ ~provided
               /\ thrown = "useAppMode must be used within AppModeProvider"
        /\ returned # <<>> =>
               /\ provided
               /\ returned = context
               /\ returned[1].isEditor # returned[1].isPreview
               /\ returned[1].isEditor <=> (returned[1].mode = "editor")
               /\ returned[1].isPreview <=> (returned[1].mode = "preview")

\* A consumer without a provider has thrown.
UseAppModeThrown ==
    /\ component = "AppModeProvider"
    /\ ~provided
    /\ thrown = "useAppMode must be used within AppModeProvider"

\* Below a provider that resolved 'preview' from the hash, a consumer has
\* been handed isPreview and not isEditor.
UseAppModeContractWitness ==
    /\ component = "AppModeProvider"
    /\ provided
    /\ location.search = <<>>
    /\ location.hash.query = << <<"mode", "preview">> >>
    /\ returned # <<>>
    /\ returned[1].mode = "preview"
    /\ returned[1].isPreview /\ ~returned[1].isEditor

(***************************************************************************)
(* Ties.                                                                   *)
(***************************************************************************)
\* C9. For each of the four criteria the chosen index is the smallest index
\* among the alternatives that attain the deciding value (largest row
\* maximum, largest row minimum, smallest maximum regret, largest expected
\* value).
TieBreakFirst ==
    /\ Evaluated =>
           /\ maximaxChoice \in 0..(Len(payoffs) - 1)
           /\ maximinChoice \in 0..(Len(payoffs) - 1)
           /\ minimaxRegretChoice \in 0..(Len(payoffs) - 1)
           /\ \A i \in Rows :
                  /\ (\A k \in Rows : maxPayoffs[i] >= maxPayoffs[k])
                         => maximaxChoice + 1 <= i
                  /\ (\A k \in Rows : minPayoffs[i] >= minPayoffs[k])
                         => maximinChoice + 1 <= i
                  /\ (\A k \in Rows : maxRegrets[i] <= maxRegrets[k])
                         => minimaxRegretChoice + 1 <= i
    /\ Normalised =>
           /\ bestIndex \in 0..2
           /\ \A i \in 1..3 :
                  (\A k \in 1..3 : ~FracLess(expectedUtilities[i], expectedUtilities[k]))
                      => bestIndex + 1 <= i

\* A table on which the row maxima tie, the row minima tie and the maximum
\* regrets tie, although its rows differ, has been evaluated.
TieBreakFirstWitness ==
    /\ Evaluated
    /\ Len(payoffs) = 2
    /\ payoffs[1] # payoffs[2]
    /\ maxPayoffs[1] = maxPayoffs[2] /\ maximaxChoice = 0
    /\ minPayoffs[1] = minPayoffs[2] /\ maximinChoice = 0
    /\ maxRegrets[1] = maxRegrets[2] /\ minimaxRegretChoice = 0

\* Inputs for which the expected values of the first two alternatives tie at
\* the top have been rendered (reachable under SpecCriteria and
\* SpecNormalized).
ExpectedUtilityTie ==
    /\ Normalised
    /\ inputs = <<2, 1, 1>>
    /\ expectedUtilities[1] = expectedUtilities[2]
    /\ FracLess(expectedUtilities[3], expectedUtilities[1])
    /\ bestIndex = 0

====
